---------------------------- MODULE Spec2Model ----------------------------
(***************************************************************************)
(* CartesiaTTSService (src/src/pipecat/services/cartesia.py): a streaming  *)
(* text-to-speech client.  The service owns a websocket, a current context *)
(* id, the start timestamp of the replay clock and a buffer of timestamped *)
(* words.  Two asyncio tasks run beside the frame-processing path: the     *)
(* receive loop (_receive_task_handler) and the scheduler loop             *)
(* (_context_appending_task_handler).  Tasks are cooperative: a step of    *)
(* the model is the code between two suspension points (await).            *)
(*                                                                         *)
(* None is modelled as 0 for the context id and the start timestamp (the   *)
(* clock starts at 1, as time.time() is never 0) and as FALSE for the      *)
(* websocket handle.  uuid4() is a counter: every allocated id is fresh.   *)
(***************************************************************************)
EXTENDS Integers, Sequences, FiniteSets

\* ------------------------------------------------------------------ bounds
MaxCtx == 2          \* context ids allocated by run_tts
MaxWords == 2        \* words the server sends in "timestamps" messages
MaxTime == 2         \* last value of the wall clock
MaxOff == 1          \* largest end offset of a word
MaxDrops == 1        \* times the network drops the connection
MaxFaults == 1       \* messages and pushes that go wrong (SpecFaults)

None == 0

\* The words the server may send, in the order it sends them.
Vocabulary == <<"a", "b", "c", "d", "e", "f">>

VARIABLES
    \* fields of the object (__init__, lines 79-85)
    websocket,                    \* self._websocket is not None
    context_id,                   \* self._context_id (None == 0)
    context_id_start_timestamp,   \* self._context_id_start_timestamp (None == 0)
    timestamped_words_buffer,     \* self._timestamped_words_buffer
    receive_task,                 \* self._receive_task: "none", "running", "ended"
    context_appending_task,       \* self._context_appending_task: "none", "running", "ended"
    waiting_for_ttfb,             \* self._waiting_for_ttfb
    receive_loops,                \* receive tasks created and not cancelled
    scheduler_loops,              \* scheduler tasks created and not cancelled
    ttfb_started,                 \* the metrics object: a TTFB measurement is open
    \* positions of the coroutines
    phase,                        \* "new", "running", "stopped": start()/stop()
    recvPc,                       \* receive loop: "next" (waiting for a message), or
                                  \* "ttfb" (inside stop_ttfb_metrics, line 160)
    recvMsgCtx,                   \* msg["context_id"] of the chunk being processed
    schedPc,                      \* scheduler loop: "sleep", or "push" (inside push_frame)
    elapsed_seconds,              \* the scheduler's local elapsed_seconds
    rtPc,                         \* run_tts: "idle", or "send" (inside websocket.send)
    rtMsgCtx,                     \* msg["context_id"] of the request being sent
    intPc,                        \* handle_interruption: "idle", or "push"
    intCtxs,                      \* the contexts this handle_interruption call cut short
    \* environment
    now,                          \* time.time()
    endpointUp,                   \* websockets.connect would succeed
    wsAlive,                      \* the open socket still carries data
    requested,                    \* context ids the server was asked for on this socket
    nextId,                       \* next uuid
    \* history
    textOut,                      \* per context: the words pushed as TextFrames, in order
    endCount,                     \* per context: the end-of-response frames pushed for it
    intMarkers,                   \* frames pushed by the last handle_interruption call
    firstChunkAt,                 \* per context: arrival time of its first chunk
    receivedWords,                \* per context: the words appended to the buffer
    opened,                       \* contexts whose opening request was sent
    interrupted,                  \* contexts cut short by handle_interruption
    lastEvent,                    \* the last step of the program: its operation, the
                                  \* context it was about, the frame it pushed
    lastCall,                     \* what the last run_tts call did
    counts                        \* how often each bounded event has happened

fields == <<websocket, context_id, context_id_start_timestamp,
            timestamped_words_buffer, receive_task, context_appending_task,
            waiting_for_ttfb, receive_loops, scheduler_loops>>
tasks == <<receive_task, context_appending_task, receive_loops, scheduler_loops>>
pcs == <<phase, recvPc, recvMsgCtx, schedPc, elapsed_seconds, rtPc, rtMsgCtx, intPc, intCtxs>>
env == <<now, endpointUp, wsAlive, requested, nextId>>
history == <<textOut, endCount, intMarkers, firstChunkAt, receivedWords, opened, interrupted, 
             lastEvent, lastCall, counts>>
outputs == <<textOut, endCount, intMarkers>>
vars == <<fields, ttfb_started, pcs, env, history>>

Ctxs == 1..MaxCtx

\* ------------------------------------------------------------------ frames
LLMFullResponseEndFrameWord == "LLMFullResponseEndFrame"

\* An entry of the buffer: [word, timestamp]; ctx is history (the context of
\* the message that appended it).
Entry(word, ts, ctx) == [word |-> word, ts |-> ts, ctx |-> ctx]

\* The frames handed to push_frame.  since is history: the time elapsed, at
\* the push, since the first chunk of the frame's context arrived (-1 when
\* none has arrived).
TextFrame(e, since) ==
    [type |-> "text", word |-> e.word, ctx |-> e.ctx, off |-> e.ts, since |-> since]
LLMFullResponseEndFrame(ctx) ==
    [type |-> "end", word |-> "", ctx |-> ctx, off |-> 0, since |-> 0]
AudioRawFrame(ctx) ==
    [type |-> "audio", word |-> "", ctx |-> ctx, off |-> 0, since |-> 0]
NoFrame ==
    [type |-> "none", word |-> "", ctx |-> None, off |-> 0, since |-> 0]

\* The record of a step: msg is the type of the message a step of the receive
\* loop processed.
Event(op, ctx, frame) == [op |-> op, ctx |-> ctx, frame |-> frame, msg |-> "none"]
ReceiveEvent(msg, frame) ==
    [op |-> "receive", ctx |-> msg.context_id, frame |-> frame, msg |-> msg.type]

\* What the last run_tts call did: the context id of its request, whether it
\* allocated that id, how often it called send, whether the send succeeded,
\* whether it yielded, whether it went through the except clause of line 220;
\* and whether, since it built its request, a "done", an interruption or a
\* disconnect has happened.
NoCall ==
    [ctx |-> None, allocated |-> FALSE, sends |-> 0, sent |-> FALSE, yielded |-> FALSE,
     failed |-> FALSE, cleared |-> FALSE]

Init ==
    /\ websocket = FALSE
    /\ context_id = None
    /\ context_id_start_timestamp = None
    /\ timestamped_words_buffer = <<>>
    /\ receive_task = "none"
    /\ context_appending_task = "none"
    /\ waiting_for_ttfb = FALSE
    /\ receive_loops = 0
    /\ scheduler_loops = 0
    /\ ttfb_started = FALSE
    /\ phase = "new"
    /\ recvPc = "next"
    /\ recvMsgCtx = None
    /\ schedPc = "sleep"
    /\ elapsed_seconds = 0
    /\ rtPc = "idle"
    /\ rtMsgCtx = None
    /\ intPc = "idle"
    /\ intCtxs = {}
    /\ now = 1
    /\ endpointUp \in BOOLEAN
    /\ wsAlive = FALSE
    /\ requested = {}
    /\ nextId = 1
    /\ textOut = [c \in Ctxs |-> <<>>]
    /\ endCount = [c \in Ctxs |-> 0]
    /\ intMarkers = 0
    /\ firstChunkAt = [c \in Ctxs |-> 0]
    /\ receivedWords = [c \in Ctxs |-> <<>>]
    /\ opened = {}
    /\ interrupted = {}
    /\ lastEvent = Event("init", None, NoFrame)
    /\ lastCall = NoCall
    /\ counts = [words |-> 0, drops |-> 0, faults |-> 0]

\* ------------------------------------------------------- connection manager
\* The fields of the object as one value, so that disconnect() followed by
\* connect() composes.
Self ==
    [websocket |-> websocket,
     context_id |-> context_id,
     context_id_start_timestamp |-> context_id_start_timestamp,
     timestamped_words_buffer |-> timestamped_words_buffer,
     receive_task |-> receive_task,
     context_appending_task |-> context_appending_task,
     waiting_for_ttfb |-> waiting_for_ttfb,
     receive_loops |-> receive_loops,
     scheduler_loops |-> scheduler_loops]

SetFields(s) ==
    /\ websocket' = s.websocket
    /\ context_id' = s.context_id
    /\ context_id_start_timestamp' = s.context_id_start_timestamp
    /\ timestamped_words_buffer' = s.timestamped_words_buffer
    /\ receive_task' = s.receive_task
    /\ context_appending_task' = s.context_appending_task
    /\ waiting_for_ttfb' = s.waiting_for_ttfb
    /\ receive_loops' = s.receive_loops
    /\ scheduler_loops' = s.scheduler_loops

\* connect(): on success the handle is stored and both loops are created; on
\* an exception of websockets.connect the handle is None.
Connect(s, up) ==
    IF up
    THEN [s EXCEPT !.websocket = TRUE,
                   !.receive_task = "running",
                   !.context_appending_task = "running",
                   !.receive_loops = @ + 1,
                   !.scheduler_loops = @ + 1]
    ELSE [s EXCEPT !.websocket = FALSE]

\* The state reset of disconnect(), lines 122-125.
ResetState(s) ==
    [s EXCEPT !.context_id = None,
              !.context_id_start_timestamp = None,
              !.timestamped_words_buffer = <<>>,
              !.waiting_for_ttfb = FALSE]

\* Lines 112-117: a task whose handle is not None is cancelled and its handle
\* cleared.
CancelTasks(s) ==
    [s EXCEPT !.context_appending_task = "none",
              !.scheduler_loops = IF s.context_appending_task # "none" THEN @ - 1 ELSE @,
              !.receive_task = "none",
              !.receive_loops = IF s.receive_task # "none" THEN @ - 1 ELSE @]

\* A disconnect() that leaves the tasks and their handles alone.
Disconnect_TasksKept(s, closeRaises) ==
    LET closed == [s EXCEPT !.websocket = FALSE]
    IN  IF s.websocket /\ closeRaises THEN closed ELSE ResetState(closed)

\* disconnect(): both tasks are cancelled and their handles cleared, the
\* handle is cleared and the socket closed; an exception of ws.close() goes
\* to the except clause of line 127, past the reset.
Disconnect(s, closeRaises) ==
    LET cancelled == [CancelTasks(s) EXCEPT !.websocket = FALSE]
    IN  IF s.websocket /\ closeRaises THEN cancelled ELSE ResetState(cancelled)

\* The metrics hooks of the base class: start_ttfb_metrics opens the TTFB
\* measurement, stop_ttfb_metrics and stop_all_metrics close it.  The
\* measurement changes when the hook is called; the callers that go on after
\* the await (lines 160 and 135) are suspended there.
start_ttfb_metrics == TRUE
stop_ttfb_metrics == FALSE
stop_all_metrics == FALSE

\* Line 126: disconnect() reaches stop_all_metrics unless ws.close() raised.
MetricsAfterDisconnect(s, closeRaises) ==
    IF s.websocket /\ closeRaises THEN ttfb_started ELSE stop_all_metrics

\* What the socket and the server are after connect()/disconnect(): a new
\* socket is alive and the server knows no context on it.
SocketAfter(connected, closed) ==
    /\ wsAlive' = IF connected THEN TRUE ELSE IF closed THEN FALSE ELSE wsAlive
    /\ requested' = IF connected \/ closed THEN {} ELSE requested

\* A cancelled task runs no more of its code; a created scheduler task starts
\* at its sleep, a created receive task waiting for a message.
SchedulerRestarted ==
    /\ schedPc' = "sleep"
    /\ elapsed_seconds' = 0
    /\ recvPc' = "next"
    /\ recvMsgCtx' = None

Bump(what) == [counts EXCEPT ![what] = @ + 1]

\* start(): connect.
Start ==
    /\ phase = "new"
    /\ phase' = "running"
    /\ SetFields(Connect(Self, endpointUp))
    /\ SocketAfter(endpointUp, FALSE)
    /\ SchedulerRestarted
    /\ lastEvent' = Event("start", None, NoFrame)
    /\ UNCHANGED <<ttfb_started, rtPc, rtMsgCtx, intPc, intCtxs, now, endpointUp, nextId,
                   outputs, firstChunkAt, receivedWords, opened, interrupted, lastCall,
                   counts>>

\* stop(): disconnect.  An EndFrame is an ordered frame: it is processed when
\* no run_tts call is in progress.
Stop ==
    /\ phase \in {"running", "stopped"}
    /\ rtPc = "idle"
    /\ intPc = "idle"
    /\ \E closeRaises \in BOOLEAN :
          /\ closeRaises => websocket
          /\ SetFields(Disconnect(Self, closeRaises))
          /\ ttfb_started' = MetricsAfterDisconnect(Self, closeRaises)
          /\ lastEvent' = Event("stop", None, NoFrame)
    /\ phase' = "stopped"
    /\ SocketAfter(FALSE, TRUE)
    /\ SchedulerRestarted
    /\ lastCall' = [lastCall EXCEPT !.cleared = TRUE]
    /\ UNCHANGED <<rtPc, rtMsgCtx, intPc, intCtxs, now, endpointUp, nextId, outputs,
                   firstChunkAt, receivedWords, opened, interrupted, counts>>

\* --------------------------------------------------- outbound request encoder
\* A run_tts that allocates a context id for every request.
NeedsNewContext_Always(s) == TRUE

\* Line 201: a context id is allocated when none is tracked.
NeedsNewContext(s) == s.context_id = None

\* run_tts up to the await of websocket.send (lines 193-219): connect when
\* there is no handle, open the TTFB window, allocate a context id when none
\* is tracked, build the request under the tracked id and call send.
RunTTSBegin ==
    /\ phase = "running"
    /\ rtPc = "idle"
    /\ LET lazy == ~websocket
           s1 == IF lazy THEN Connect(Self, endpointUp) ELSE Self
           fresh == NeedsNewContext(s1)
           ctx == IF fresh THEN nextId ELSE s1.context_id
       IN  /\ fresh => nextId <= MaxCtx
           /\ SetFields([s1 EXCEPT !.waiting_for_ttfb = TRUE, !.context_id = ctx])
           /\ ttfb_started' = IF s1.waiting_for_ttfb THEN ttfb_started
                               ELSE start_ttfb_metrics
           /\ nextId' = IF fresh THEN nextId + 1 ELSE nextId
           /\ rtMsgCtx' = ctx
           /\ SocketAfter(lazy /\ endpointUp, FALSE)
           /\ IF lazy /\ endpointUp
              THEN SchedulerRestarted
              ELSE UNCHANGED <<schedPc, elapsed_seconds, recvPc, recvMsgCtx>>
           /\ lastCall' = [NoCall EXCEPT !.ctx = ctx, !.allocated = fresh, !.sends = 1]
           /\ lastEvent' = Event("run_tts", ctx, NoFrame)
    /\ rtPc' = "send"
    /\ UNCHANGED <<phase, intPc, intCtxs, now, endpointUp, outputs, firstChunkAt, receivedWords,
                   opened, interrupted, counts>>

\* websocket.send succeeds on a handle whose socket is alive; on None it is
\* an AttributeError, on a dead socket a ConnectionClosed.
SendSucceeds == websocket /\ wsAlive

\* The send returned (lines 219, 225): the server has the request; yield None.
RunTTSSent ==
    /\ rtPc = "send"
    /\ SendSucceeds
    /\ rtPc' = "idle"
    /\ rtMsgCtx' = None
    /\ requested' = requested \cup {rtMsgCtx}
    /\ opened' = opened \cup {rtMsgCtx}
    /\ lastCall' = [lastCall EXCEPT !.sent = TRUE, !.yielded = TRUE]
    /\ lastEvent' = Event("run_tts", rtMsgCtx, NoFrame)
    /\ UNCHANGED <<fields, ttfb_started, phase, recvPc, recvMsgCtx, schedPc, elapsed_seconds,
                   intPc, intCtxs, now, endpointUp, wsAlive, nextId, outputs, firstChunkAt,
                   receivedWords, interrupted, counts>>

\* What the except clause of lines 220-224 makes of the object.
SendFailureRecovery(s, closeRaises, up) == Connect(Disconnect(s, closeRaises), up)

\* The send raised (lines 220-224): disconnect, connect, return.
RunTTSSendFailed ==
    /\ rtPc = "send"
    /\ ~SendSucceeds
    /\ rtPc' = "idle"
    /\ rtMsgCtx' = None
    /\ \E closeRaises \in BOOLEAN :
          /\ closeRaises => websocket
          /\ SetFields(SendFailureRecovery(Self, closeRaises, endpointUp))
          /\ ttfb_started' = MetricsAfterDisconnect(Self, closeRaises)
          /\ lastEvent' = Event("run_tts", rtMsgCtx, NoFrame)
    /\ SocketAfter(endpointUp, TRUE)
    /\ SchedulerRestarted
    /\ lastCall' = [lastCall EXCEPT !.failed = TRUE, !.cleared = TRUE]
    /\ UNCHANGED <<phase, intPc, intCtxs, now, endpointUp, nextId, outputs, firstChunkAt,
                   receivedWords, opened, interrupted, counts>>

\* ------------------------------------------------ inbound event demultiplexer
\* list(zip(words, end)): pairs up to the shorter of the two lists.
Min(a, b) == IF a <= b THEN a ELSE b
\* A zip that pairs the lists from their ends.
Zip_Reversed(words, end, ctx) ==
    LET n == Min(Len(words), Len(end))
    IN  [i \in 1..n |-> Entry(words[n + 1 - i], end[n + 1 - i], ctx)]

Zip(words, end, ctx) ==
    [i \in 1..Min(Len(words), Len(end)) |-> Entry(words[i], end[i], ctx)]

\* A filter that lets every message through while no context is tracked.
Skipped_OnlyWhileTracked(msg) == context_id # None /\ msg.context_id # context_id

\* Line 143: the message is skipped when its context id is not the tracked one.
Skipped(msg) == msg.context_id # context_id

\* Line 157: the start timestamp is recorded when none is recorded.
StartTimestampAfterChunk == 
    IF context_id_start_timestamp = None THEN now ELSE context_id_start_timestamp

\* The messages the server may send now: of any type, for any context it was
\* asked for on this socket; a "timestamps" message carries the next one or
\* two words of the vocabulary with end offsets.
NextWords(n) == [i \in 1..n |-> Vocabulary[counts.words + i]]
MessagesOf(ids) ==
        [type : {"chunk"}, context_id : ids, words : {<<>>}, end : {<<>>}]
        \cup [type : {"done"}, context_id : ids, words : {<<>>}, end : {<<>>}]
        \cup UNION {[type : {"timestamps"}, context_id : ids, words : {NextWords(n)},
                     end : [1..n -> 1..MaxOff]] :
                    n \in 1..Min(2, MaxWords - counts.words)}
Messages == MessagesOf(requested)

\* A "done" that puts the completion sentinel in front of the waiting words.
SentinelAppended_AtHead(buffer, ctx) ==
    <<Entry(LLMFullResponseEndFrameWord, 0, ctx)>> \o buffer

\* Line 149: the completion sentinel goes to the tail of the buffer.
SentinelAppended(buffer, ctx) ==
    Append(buffer, Entry(LLMFullResponseEndFrameWord, 0, ctx))

\* The history of context c, when c is one (a message may carry None).
Noted(f, c, v) == IF c \in DOMAIN f THEN [f EXCEPT ![c] = v] ELSE f

\* One iteration of the receive loop (lines 140-167) on message msg, up to
\* its next suspension: for a chunk that finds the TTFB flag set this is the
\* await of stop_ttfb_metrics (line 160), with the start timestamp recorded
\* and the flag still set; otherwise it is the end of the iteration.
Receive(msg) ==
    /\ receive_task = "running"
    /\ recvPc = "next"
    /\ wsAlive
    /\ lastEvent' = ReceiveEvent(msg, IF ~Skipped(msg) /\ msg.type = "chunk"
                                         /\ ~waiting_for_ttfb
                                      THEN AudioRawFrame(msg.context_id) ELSE NoFrame)
    /\ IF Skipped(msg)
       THEN UNCHANGED <<fields, ttfb_started, recvPc, recvMsgCtx, outputs, firstChunkAt,
                        receivedWords>>
       ELSE CASE msg.type = "done" ->
                   /\ context_id' = None
                   /\ timestamped_words_buffer' =
                         SentinelAppended(timestamped_words_buffer, msg.context_id)
                   /\ UNCHANGED <<websocket, context_id_start_timestamp, tasks,
                                  waiting_for_ttfb, ttfb_started, recvPc, recvMsgCtx,
                                  outputs, firstChunkAt, receivedWords>>
              [] msg.type = "timestamps" ->
                   /\ timestamped_words_buffer' =
                         timestamped_words_buffer \o Zip(msg.words, msg.end, msg.context_id)
                   /\ receivedWords' =
                         Noted(receivedWords, msg.context_id,
                               IF msg.context_id = None THEN <<>>
                               ELSE receivedWords[msg.context_id] \o msg.words)
                   /\ UNCHANGED <<websocket, context_id, context_id_start_timestamp, tasks,
                                  waiting_for_ttfb, ttfb_started, recvPc, recvMsgCtx,
                                  outputs, firstChunkAt>>
              [] msg.type = "chunk" ->
                   /\ context_id_start_timestamp' = StartTimestampAfterChunk
                   /\ IF waiting_for_ttfb
                      THEN /\ ttfb_started' = stop_ttfb_metrics
                           /\ recvPc' = "ttfb"
                           /\ recvMsgCtx' = msg.context_id
                      ELSE UNCHANGED <<ttfb_started, recvPc, recvMsgCtx>>
                   /\ firstChunkAt' =
                         Noted(firstChunkAt, msg.context_id,
                               IF msg.context_id = None THEN 0
                               ELSE IF firstChunkAt[msg.context_id] # 0
                                    THEN firstChunkAt[msg.context_id] ELSE now)
                   /\ UNCHANGED <<websocket, context_id, timestamped_words_buffer, tasks,
                                  waiting_for_ttfb, receivedWords, outputs>>
    /\ counts' = [counts EXCEPT !.words = @ + Len(msg.words),
                                !.faults = IF msg.context_id = None THEN @ + 1 ELSE @]
    /\ lastCall' = [lastCall EXCEPT !.cleared = @ \/ (~Skipped(msg) /\ msg.type = "done")]
    /\ UNCHANGED <<phase, schedPc, elapsed_seconds, rtPc, rtMsgCtx, intPc, intCtxs, env,
                   opened, interrupted>>

\* stop_ttfb_metrics returned (lines 161-167): the flag is cleared and the
\* audio frame of the chunk is pushed.
ReceiveResume ==
    /\ receive_task = "running"
    /\ recvPc = "ttfb"
    /\ waiting_for_ttfb' = FALSE
    /\ recvPc' = "next"
    /\ recvMsgCtx' = None
    /\ lastEvent' = [op |-> "receive_resume", ctx |-> recvMsgCtx,
                     frame |-> AudioRawFrame(recvMsgCtx), msg |-> "chunk"]
    /\ UNCHANGED <<websocket, context_id, context_id_start_timestamp,
                   timestamped_words_buffer, tasks, ttfb_started, phase, schedPc,
                   elapsed_seconds, rtPc, rtMsgCtx, intPc, intCtxs, env, outputs,
                   firstChunkAt, receivedWords, opened, interrupted, lastCall, counts>>

ReceiveMessage == \E msg \in Messages : Receive(msg)

\* The socket was closed under the loop: the async for ends (or raises into
\* the except clause of line 168) and the task is over.
ReceiveClosed ==
    /\ receive_task = "running"
    /\ recvPc = "next"
    /\ ~wsAlive
    /\ receive_task' = "ended"
    /\ lastEvent' = Event("receive", None, NoFrame)
    /\ UNCHANGED <<websocket, context_id, context_id_start_timestamp,
                   timestamped_words_buffer, context_appending_task, waiting_for_ttfb,
                   receive_loops, scheduler_loops, ttfb_started, pcs, env, outputs,
                   firstChunkAt, receivedWords, opened, interrupted, lastCall, counts>>

\* --------------------------------------------------- timeline replay scheduler
\* Line 180: the head of the buffer is due.
Due(buffer, elapsed) == buffer # <<>> /\ Head(buffer).ts <= elapsed

\* Line 182: the popped entry is the completion sentinel.
IsSentinel(e) == e.word = LLMFullResponseEndFrameWord /\ e.ts = 0

\* The time elapsed since the first chunk of context c arrived.
SinceFirstChunk(c) ==
    IF c = None \/ firstChunkAt[c] = 0 THEN -1 ELSE now - firstChunkAt[c]

\* The frame pushed for a popped entry (lines 182-186).
FrameFor(e) ==
    IF IsSentinel(e) THEN LLMFullResponseEndFrame(e.ctx)
    ELSE TextFrame(e, SinceFirstChunk(e.ctx))

Counted(n) == IF n < 2 THEN n + 1 ELSE n

\* The record of a pushed frame of the scheduler.
Pushed(e) ==
    /\ lastEvent' = Event("scheduler", e.ctx, FrameFor(e))
    /\ IF IsSentinel(e)
       THEN /\ endCount' = Noted(endCount, e.ctx,
                                  IF e.ctx = None THEN 0 ELSE Counted(endCount[e.ctx]))
            /\ UNCHANGED textOut
       ELSE /\ textOut' = Noted(textOut, e.ctx,
                                IF e.ctx = None THEN <<>> ELSE Append(textOut[e.ctx], e.word))
            /\ UNCHANGED endCount
    /\ UNCHANGED intMarkers

\* An inner loop that stops at the completion sentinel: when the frame just
\* pushed was the end frame, the tick is over.
ReplayLoop_BreakAfterMarker(elapsed) ==
    IF /\ Due(timestamped_words_buffer, elapsed)
       /\ ~(schedPc = "push" /\ lastEvent.op = "scheduler" /\ lastEvent.frame.type = "end")
    THEN /\ timestamped_words_buffer' = Tail(timestamped_words_buffer)
         /\ Pushed(Head(timestamped_words_buffer))
         /\ schedPc' = "push"
         /\ elapsed_seconds' = elapsed
    ELSE /\ schedPc' = "sleep"
         /\ elapsed_seconds' = 0
         /\ lastEvent' = Event("scheduler", None, NoFrame)
         /\ UNCHANGED <<timestamped_words_buffer, outputs>>

\* The test of the inner while loop with elapsed_seconds = elapsed, and one
\* round of its body: pop the head and push its frame; the task is then
\* inside push_frame.  When the head is not due the task is back at its sleep.
ReplayLoop(elapsed) ==
    IF Due(timestamped_words_buffer, elapsed)
    THEN /\ timestamped_words_buffer' = Tail(timestamped_words_buffer)
         /\ Pushed(Head(timestamped_words_buffer))
         /\ schedPc' = "push"
         /\ elapsed_seconds' = elapsed
    ELSE /\ schedPc' = "sleep"
         /\ elapsed_seconds' = 0
         /\ lastEvent' = Event("scheduler", None, NoFrame)
         /\ UNCHANGED <<timestamped_words_buffer, outputs>>

\* Line 177.
ElapsedSeconds == now - context_id_start_timestamp

\* The sleep is over (lines 174-180): nothing is replayed without a start
\* timestamp; otherwise the elapsed time is taken once and the loop entered.
SchedulerTick ==
    /\ context_appending_task = "running"
    /\ schedPc = "sleep"
    /\ IF context_id_start_timestamp = None
       THEN /\ lastEvent' = Event("scheduler", None, NoFrame)
            /\ UNCHANGED <<timestamped_words_buffer, outputs, schedPc, elapsed_seconds>>
       ELSE ReplayLoop(ElapsedSeconds)
    /\ UNCHANGED <<websocket, context_id, context_id_start_timestamp, tasks, waiting_for_ttfb,
                   ttfb_started, phase, recvPc, recvMsgCtx, rtPc, rtMsgCtx, intPc, intCtxs,
                   env, firstChunkAt, receivedWords, opened, interrupted, lastCall, counts>>

\* push_frame returned inside the inner loop: its test is evaluated again
\* with the elapsed time taken before the push.
SchedulerResume ==
    /\ context_appending_task = "running"
    /\ schedPc = "push"
    /\ ReplayLoop(elapsed_seconds)
    /\ UNCHANGED <<websocket, context_id, context_id_start_timestamp, tasks, waiting_for_ttfb,
                   ttfb_started, phase, recvPc, recvMsgCtx, rtPc, rtMsgCtx, intPc, intCtxs,
                   env, firstChunkAt, receivedWords, opened, interrupted, lastCall, counts>>

\* ------------------------------------------------------- interruption handler
\* An interruption that leaves the buffer as it is.
BufferAfterInterruption_Kept(buffer) == buffer

\* Line 134: the buffer is replaced by an empty list.
BufferAfterInterruption(buffer) == <<>>

\* The contexts in progress: the tracked one and those with entries to replay.
InProgress ==
    ({context_id}
     \cup {timestamped_words_buffer[i].ctx : i \in 1..Len(timestamped_words_buffer)})
    \ {None}

\* handle_interruption up to the await of stop_all_metrics (lines 131-135).
HandleInterruptionClear ==
    /\ phase = "running"
    /\ intPc = "idle"
    /\ context_id' = None
    /\ context_id_start_timestamp' = None
    /\ timestamped_words_buffer' = BufferAfterInterruption(timestamped_words_buffer)
    /\ intPc' = "push"
    /\ intCtxs' = InProgress
    /\ interrupted' = interrupted \cup InProgress
    /\ intMarkers' = 0
    /\ lastCall' = [lastCall EXCEPT !.cleared = TRUE]
    /\ ttfb_started' = stop_all_metrics
    /\ lastEvent' = Event("interruption", None, NoFrame)
    /\ UNCHANGED <<websocket, tasks, waiting_for_ttfb, phase, recvPc, recvMsgCtx, schedPc,
                   elapsed_seconds, rtPc, rtMsgCtx, env, textOut, endCount, firstChunkAt,
                   receivedWords, opened, counts>>

\* Line 136: the forced end-of-response frame.
HandleInterruptionPush ==
    /\ intPc = "push"
    /\ intPc' = "idle"
    /\ intCtxs' = {}
    /\ intMarkers' = intMarkers + 1
    /\ endCount' = [c \in Ctxs |-> IF c \in intCtxs THEN Counted(endCount[c])
                                   ELSE endCount[c]]
    /\ lastEvent' = Event("interruption", None, LLMFullResponseEndFrame(None))
    /\ UNCHANGED <<fields, ttfb_started, phase, recvPc, recvMsgCtx, schedPc, elapsed_seconds,
                   rtPc, rtMsgCtx, env, textOut, firstChunkAt, receivedWords, opened,
                   interrupted, lastCall, counts>>

\* ------------------------------------------------------------- environment
\* The wall clock advances.
ClockTick ==
    /\ now < MaxTime
    /\ now' = now + 1
    /\ UNCHANGED <<fields, ttfb_started, pcs, endpointUp, wsAlive, requested, nextId, outputs,
                   firstChunkAt, receivedWords, opened, interrupted, lastEvent, lastCall,
                   counts>>

\* The network drops: the open socket is dead and the endpoint refuses
\* connections.
NetworkDown ==
    /\ endpointUp
    /\ counts.drops < MaxDrops
    /\ endpointUp' = FALSE
    /\ wsAlive' = FALSE
    /\ counts' = Bump("drops")
    /\ UNCHANGED <<fields, ttfb_started, pcs, now, requested, nextId, outputs, firstChunkAt,
                   receivedWords, opened, interrupted, lastEvent, lastCall>>

\* The endpoint accepts connections again.
NetworkUp ==
    /\ ~endpointUp
    /\ endpointUp' = TRUE
    /\ UNCHANGED <<fields, ttfb_started, pcs, now, wsAlive, requested, nextId, outputs,
                   firstChunkAt, receivedWords, opened, interrupted, lastEvent, lastCall,
                   counts>>

Next ==
    \/ Start
    \/ Stop
    \/ RunTTSBegin
    \/ RunTTSSent
    \/ RunTTSSendFailed
    \/ ReceiveMessage
    \/ ReceiveResume
    \/ ReceiveClosed
    \/ SchedulerTick
    \/ SchedulerResume
    \/ HandleInterruptionClear
    \/ HandleInterruptionPush
    \/ ClockTick
    \/ NetworkDown
    \/ NetworkUp

Spec == Init /\ [][Next]_vars

\* ------------------------------------------------------------------- faults
\* The running service with messages and pushes that go wrong, on a network
\* that stays as it is at the start.

\* Lines 141, 143: json.loads raises on a message that is not JSON, and
\* msg["context_id"] raises on a message without the field; the exception
\* leaves the async for and is logged by the except clause of line 168, where
\* the handler returns.
ReceiveMalformed ==
    /\ receive_task = "running"
    /\ recvPc = "next"
    /\ wsAlive
    /\ counts.faults < MaxFaults
    /\ receive_task' = "ended"
    /\ counts' = Bump("faults")
    /\ lastEvent' = [Event("receive", None, NoFrame) EXCEPT !.msg = "malformed"]
    /\ UNCHANGED <<websocket, context_id, context_id_start_timestamp,
                   timestamped_words_buffer, context_appending_task, waiting_for_ttfb,
                   receive_loops, scheduler_loops, ttfb_started, pcs, env, outputs,
                   firstChunkAt, receivedWords, opened, interrupted, lastCall>>

\* A message whose context id is null goes through the test of line 143 like
\* any other: None is compared with the tracked id.
ReceiveNullContext ==
    /\ counts.faults < MaxFaults
    /\ \E msg \in MessagesOf({None}) : Receive(msg)

\* push_frame raised inside the inner loop of the scheduler (lines 183, 186):
\* the exception leaves the while True and is logged by the except clause of
\* line 187, where the handler returns.
SchedulerPushFails ==
    /\ context_appending_task = "running"
    /\ schedPc = "push"
    /\ counts.faults < MaxFaults
    /\ context_appending_task' = "ended"
    /\ schedPc' = "sleep"
    /\ elapsed_seconds' = 0
    /\ counts' = Bump("faults")
    /\ lastEvent' = Event("scheduler_error", None, NoFrame)
    /\ UNCHANGED <<websocket, context_id, context_id_start_timestamp, timestamped_words_buffer,
                   receive_task, waiting_for_ttfb, receive_loops, scheduler_loops,
                   ttfb_started, phase, recvPc, recvMsgCtx, rtPc, rtMsgCtx, intPc, intCtxs,
                   env, outputs, firstChunkAt, receivedWords, opened, interrupted, lastCall>>

NextFaults ==
    \/ Start
    \/ RunTTSBegin
    \/ RunTTSSent
    \/ RunTTSSendFailed
    \/ ReceiveMessage
    \/ ReceiveResume
    \/ SchedulerTick
    \/ SchedulerResume
    \/ HandleInterruptionClear
    \/ HandleInterruptionPush
    \/ ClockTick
    \/ ReceiveMalformed
    \/ ReceiveNullContext
    \/ SchedulerPushFails

SpecFaults == Init /\ [][NextFaults]_vars

\* ------------------------------------------------------------------ claims
IsPrefix(a, b) == Len(a) <= Len(b) /\ \A i \in 1..Len(a) : a[i] = b[i]

BufferCtxs ==
    {timestamped_words_buffer[i].ctx : i \in 1..Len(timestamped_words_buffer)}

\* A started response is over when nothing of it is left in the service: its
\* context is not tracked, no request of it is being sent, none of its entries
\* (its completion sentinel among them) waits in the buffer, and no
\* interruption that cut it short has its end frame still to push.
ResponseOver(c) ==
    /\ c # context_id
    /\ c # rtMsgCtx
    /\ c \notin BufferCtxs
    /\ c \notin intCtxs

\* C1: every started response gets exactly one LLMFullResponseEndFrame, from
\* the replay of its completion sentinel or from handle_interruption: never
\* two, and not zero once the response is over (stated for the running
\* service, as the result a finite run must show).
C1_ExactlyOneEndFrame ==
    phase = "running" =>
        \A c \in opened :
            /\ endCount[c] <= 1
            /\ ResponseOver(c) => endCount[c] = 1

\* C2: a TextFrame is pushed only when the time elapsed since the first chunk
\* of the word's own context arrived is at least the word's end offset (stated
\* for the words whose context has received its first chunk).
C2_TextFrameNotBeforeOffset ==
    (lastEvent.frame.type = "text" /\ lastEvent.frame.since >= 0) =>
        lastEvent.frame.since >= lastEvent.frame.off

\* C3: once handle_interruption has cleared the state, no entry of an
\* interrupted context is in the buffer and no TextFrame is pushed for one;
\* the call itself pushes exactly one LLMFullResponseEndFrame.
C3_InterruptionClears ==
    /\ [](BufferCtxs \cap interrupted = {})
    /\ []((intPc = "push" => intMarkers = 0) /\ (intPc = "idle" => intMarkers <= 1))
    /\ [][/\ \A c \in interrupted : textOut'[c] = textOut[c]
          /\ (intPc = "idle" /\ intPc' = "push") =>
                 /\ timestamped_words_buffer' = <<>>
                 /\ context_id' = None
          /\ (intPc = "push" /\ intPc' = "idle") =>
                 /\ intMarkers' = 1
                 /\ lastEvent' = Event("interruption", None, LLMFullResponseEndFrame(None))]_vars

\* C3 witness: an interruption that ran while the scheduler was inside
\* push_frame has returned, and words of the interrupted context were
\* discarded.
C3_Witness ==
    /\ lastEvent.op = "interruption"
    /\ intPc = "idle"
    /\ intMarkers = 1
    /\ schedPc = "push"
    /\ \E c \in interrupted :
          /\ textOut[c] # <<>>
          /\ Len(textOut[c]) < Len(receivedWords[c])

\* The words of context c that wait in the buffer, in order.
RECURSIVE PendingWords(_, _)
PendingWords(buffer, c) ==
    IF buffer = <<>> THEN <<>>
    ELSE IF Head(buffer).ctx = c /\ ~IsSentinel(Head(buffer))
         THEN <<Head(buffer).word>> \o PendingWords(Tail(buffer), c)
         ELSE PendingWords(Tail(buffer), c)

HasSentinel(c) ==
    \E i \in 1..Len(timestamped_words_buffer) :
        /\ timestamped_words_buffer[i].ctx = c
        /\ IsSentinel(timestamped_words_buffer[i])

\* C4: the TextFrames of a context are pushed in the order its words were
\* received: what was pushed is a prefix of what was received; while the
\* context is tracked or its completion sentinel waits, pushed and waiting
\* words together are the words received, in order; and when the sentinel is
\* replayed every received word has been pushed, once.
C4_ReplayInReceivedOrder ==
    \A c \in Ctxs :
        /\ IsPrefix(textOut[c], receivedWords[c])
        /\ (c = context_id \/ HasSentinel(c)) =>
               textOut[c] \o PendingWords(timestamped_words_buffer, c) = receivedWords[c]
        /\ (lastEvent.op = "scheduler" /\ lastEvent.frame.type = "end"
            /\ lastEvent.frame.ctx = c) => textOut[c] = receivedWords[c]

\* C4 witness: the sentinel of a context was replayed after both its words.
C4_Witness ==
    /\ lastEvent.op = "scheduler"
    /\ lastEvent.frame.type = "end"
    /\ Len(textOut[lastEvent.frame.ctx]) = 2

\* C5: a message whose context id is not the tracked one changes none of the
\* context id, the start timestamp, the buffer and the TTFB flag, and pushes
\* no frame.
C5_StaleMessageNoEffect ==
    [][(lastEvent'.op = "receive" /\ lastEvent'.ctx # None /\ lastEvent'.ctx # context_id) =>
          /\ UNCHANGED <<context_id, context_id_start_timestamp, timestamped_words_buffer,
                         waiting_for_ttfb, outputs>>
          /\ lastEvent'.frame = NoFrame]_vars

\* C5 witness: a late message of an interrupted context was processed while
\* another context is tracked and its TTFB window is open.
C5_Witness ==
    /\ lastEvent.op = "receive"
    /\ lastEvent.ctx \in interrupted
    /\ context_id # None
    /\ lastEvent.ctx # context_id
    /\ waiting_for_ttfb

Reset ==
    /\ context_id = None
    /\ context_id_start_timestamp = None
    /\ timestamped_words_buffer = <<>>
    /\ ~waiting_for_ttfb

\* C6: after disconnect() has returned (here from stop()) the handle and both
\* task handles are None and the context id, the start timestamp, the buffer
\* and the TTFB flag are reset.
C6_DisconnectResets ==
    phase = "stopped" =>
        /\ ~websocket
        /\ receive_task = "none"
        /\ context_appending_task = "none"
        /\ Reset

\* C7: the run_tts call that follows a call whose send failed, made when the
\* endpoint accepts connections and no handle is left over dead, sends its
\* request on a handle that is not None, under a newly allocated context id
\* and with both loops running.
C7_NextCallAfterFailure ==
    [][(rtPc = "idle" /\ rtPc' = "send" /\ lastCall.failed
        /\ endpointUp /\ (websocket => wsAlive)) =>
          /\ websocket'
          /\ wsAlive'
          /\ lastCall'.allocated
          /\ receive_task' = "running"
          /\ context_appending_task' = "running"]_vars

\* C8: a run_tts call whose send failed has run disconnect (the context id,
\* the start timestamp, the buffer and the TTFB flag are reset), has yielded
\* nothing and has called send once.
C8_SendFailureResets ==
    (rtPc = "idle" /\ lastCall.failed) =>
        /\ Reset
        /\ ~lastCall.yielded
        /\ ~lastCall.sent
        /\ lastCall.sends = 1

\* C9: run_tts allocates a context id exactly when none is tracked, and
\* otherwise sends under the tracked one; a call that follows another with no
\* "done", interruption or disconnect in between sends under the same id.
C9_ContextAllocation ==
    [][(rtPc = "idle" /\ rtPc' = "send") =>
          /\ lastCall'.allocated <=> (context_id = None)
          /\ lastCall'.allocated => (rtMsgCtx' = nextId /\ nextId' = nextId + 1)
          /\ ~lastCall'.allocated => (rtMsgCtx' = context_id /\ nextId' = nextId)
          /\ context_id' = rtMsgCtx'
          /\ (lastCall.ctx # None /\ ~lastCall.cleared) => rtMsgCtx' = lastCall.ctx]_vars

\* C9 witness: a second call is sending under the context id of the first.
C9_Witness ==
    /\ rtPc = "send"
    /\ ~lastCall.allocated
    /\ rtMsgCtx \in opened
    /\ rtMsgCtx = context_id

\* C10: once the first chunk of the tracked context has been processed, the
\* start timestamp is that chunk's arrival time.
C10_StartIsFirstChunkOfContext ==
    (context_id # None /\ firstChunkAt[context_id] # 0) =>
        context_id_start_timestamp = firstChunkAt[context_id]

\* C11: an error raised while the receive loop handles one message is logged
\* and the loop goes on: as long as the socket is open and carries data the
\* receive loop is running, so the messages that follow are processed.
C11_ReceiveLoopSurvivesError ==
    (websocket /\ wsAlive) => receive_task = "running"

\* C12: a message whose context id is null is dropped in every state: the
\* context id, the start timestamp, the buffer and the TTFB flag stay as they
\* are, no frame is pushed and the receive loop keeps running.
C12_NullContextDropped ==
    [][(lastEvent'.op = "receive" /\ lastEvent'.ctx = None
        /\ lastEvent'.msg \in {"chunk", "done", "timestamps"}) =>
          /\ UNCHANGED <<context_id, context_id_start_timestamp, timestamped_words_buffer,
                         waiting_for_ttfb, outputs>>
          /\ lastEvent'.frame = NoFrame
          /\ receive_task' = "running"]_vars

\* C13: disconnect and handle_interruption cancel both loops before they
\* clear the state: when disconnect has returned (here from stop()), and when
\* handle_interruption has cleared the context id, the start timestamp and
\* the buffer, no receive loop and no scheduler loop is left uncancelled.
C13_LoopsCancelledBeforeClear ==
    (phase = "stopped" \/ intPc = "push") =>
        /\ receive_loops = 0
        /\ scheduler_loops = 0

\* C14: the TTFB flag is true exactly when a TTFB measurement has been
\* started by run_tts and not yet stopped by the first chunk, an interruption
\* or a disconnect (stated for the states where the receive loop is not
\* between the stop of the measurement and the clearing of the flag, lines
\* 160-161).
C14_FlagTracksMeasurement ==
    recvPc = "next" => (waiting_for_ttfb <=> ttfb_started)

\* C15: no send is attempted while the connection handle is None: a run_tts
\* call that is inside websocket.send holds a handle.
C15_NoSendOnNullHandle ==
    rtPc = "send" => websocket

\* C16: the scheduler pushes the end frame of a context when it pops the
\* context's completion sentinel from the head of the buffer, and by then
\* every word received for the context has been popped and pushed as a
\* TextFrame; when push_frame has returned from the end frame, the same tick
\* goes on: it pops the next entry when that is due and sleeps when not.
C16_MarkerAfterWordsThenContinue ==
    [][/\ (lastEvent'.op = "scheduler" /\ lastEvent'.frame.type = "end"
           /\ timestamped_words_buffer' # timestamped_words_buffer) =>
              /\ IsSentinel(Head(timestamped_words_buffer))
              /\ timestamped_words_buffer' = Tail(timestamped_words_buffer)
              /\ \A c \in Ctxs :
                    lastEvent'.frame.ctx = c =>
                       /\ PendingWords(timestamped_words_buffer', c) = <<>>
                       /\ textOut'[c] = receivedWords[c]
       /\ (schedPc = "push" /\ lastEvent.op = "scheduler" /\ lastEvent.frame.type = "end"
           /\ lastEvent'.op = "scheduler"
           /\ (schedPc' # schedPc \/ timestamped_words_buffer' # timestamped_words_buffer)) =>
              IF Due(timestamped_words_buffer, elapsed_seconds)
              THEN /\ timestamped_words_buffer' = Tail(timestamped_words_buffer)
                   /\ lastEvent'.frame = FrameFor(Head(timestamped_words_buffer))
                   /\ schedPc' = "push"
              ELSE /\ timestamped_words_buffer' = timestamped_words_buffer
                   /\ schedPc' = "sleep"]_vars

\* C16 witness: the scheduler is inside the push of the end frame of a
\* context whose words it has pushed, and a further entry is due in the same
\* tick.
C16_Witness ==
    /\ schedPc = "push"
    /\ lastEvent.op = "scheduler"
    /\ lastEvent.frame.type = "end"
    /\ lastEvent.frame.ctx # None
    /\ textOut[lastEvent.frame.ctx] # <<>>
    /\ Due(timestamped_words_buffer, elapsed_seconds)
    /\ ~IsSentinel(Head(timestamped_words_buffer))

\* C17: processing a "done" message of the tracked context sets the context
\* id to None and appends one completion sentinel at the tail of the buffer;
\* the start timestamp, the entries already in the buffer, the TTFB flag and
\* the handle stay as they are and no frame is pushed.
C17_DoneEffects ==
    [][(lastEvent'.op = "receive" /\ lastEvent'.msg = "done"
        /\ context_id # None /\ lastEvent'.ctx = context_id) =>
          /\ context_id' = None
          /\ timestamped_words_buffer' =
                Append(timestamped_words_buffer,
                       [word |-> "LLMFullResponseEndFrame", ts |-> 0, ctx |-> context_id])
          /\ UNCHANGED <<context_id_start_timestamp, waiting_for_ttfb, websocket, outputs>>
          /\ lastEvent'.frame = NoFrame]_vars

\* C17 witness: a "done" was processed while a word waited in the buffer and
\* the start timestamp was set; the sentinel is behind the word.
C17_Witness ==
    /\ lastEvent.op = "receive"
    /\ lastEvent.msg = "done"
    /\ context_id = None
    /\ context_id_start_timestamp # None
    /\ Len(timestamped_words_buffer) = 2
    /\ ~IsSentinel(timestamped_words_buffer[1])
    /\ timestamped_words_buffer[2] = Entry(LLMFullResponseEndFrameWord, 0, lastEvent.ctx)

\* C18: an exception raised during one scheduler tick costs that tick only:
\* as long as the service holds a connection handle the scheduler loop is
\* running, so the entries waiting in the buffer are replayed by later ticks.
C18_SchedulerSurvivesTickError ==
    websocket => context_appending_task = "running"

\* C19: at every suspension point the handle of the receive task and the
\* handle of the scheduler task are not None exactly when the connection
\* handle is not None, and at most one receive loop and one scheduler loop
\* are uncancelled.
C19_TaskHandlesFollowConnection ==
    /\ (receive_task # "none") <=> websocket
    /\ (context_appending_task # "none") <=> websocket
    /\ receive_loops <= 1
    /\ scheduler_loops <= 1

\* C19 witness: a run_tts call whose send failed on a dead socket has
\* disconnected and connected again: the service holds a new handle and one
\* loop of each kind.
C19_Witness ==
    /\ rtPc = "idle"
    /\ lastCall.failed
    /\ counts.drops = 1
    /\ websocket
    /\ receive_task = "running"
    /\ context_appending_task = "running"
    /\ receive_loops = 1
    /\ scheduler_loops = 1

\* C20: an AudioRawFrame is pushed only by the receive loop, for a "chunk"
\* message whose context id was the tracked one when the message was
\* processed, and never for a context that handle_interruption has cut
\* short, whether or not run_tts has opened a new context since.
C20_AudioOnlyForTrackedContext ==
    [][(lastEvent'.frame.type = "audio" /\ lastEvent' # lastEvent) =>
          /\ lastEvent'.op \in {"receive", "receive_resume"}
          /\ lastEvent'.msg = "chunk"
          /\ lastEvent'.ctx # None
          /\ lastEvent'.op = "receive" => lastEvent'.ctx = context_id
          /\ lastEvent'.op = "receive_resume" => lastEvent'.ctx = recvMsgCtx
          /\ lastEvent'.ctx \notin interrupted]_vars

=============================================================================
